---- MODULE Spec2Model ----
(***************************************************************************)
(* Model of src/js/main.js: the dark-mode controller of Mundi Synthetic.   *)
(*                                                                         *)
(* The script is an IIFE that looks up the button #dark-mode-toggle,       *)
(* defines apply(enabled), resolves the initial state from localStorage or *)
(* from the prefers-color-scheme media query, and binds a click listener.  *)
(*                                                                         *)
(* JavaScript values that reach apply() are modelled as the strings        *)
(* "true", "false" and "undefined": `window.matchMedia && ...` evaluates   *)
(* to undefined when window.matchMedia does not exist.                     *)
(* localStorage is taken to be available (getItem/setItem do not throw).   *)
(***************************************************************************)
EXTENDS Integers, Sequences, FiniteSets, TLC

\* ---------------------------------------------------------------- bounds
\* executions of the script on one page (it may be loaded again after the
\* header has been fetched)
MaxRuns == 2
\* page loads (sessions) sharing one localStorage
MaxLoads == 2

\* ------------------------------------------------------------ value sets
JSValues == {"true", "false", "undefined"}
\* aria-pressed attribute of the button; "absent" is getAttribute() = null
AttrValues == {"absent", "true", "false", "mixed"}
\* localStorage.getItem('darkMode'); "absent" is null, "yes" a foreign token
StorageValues == {"absent", "1", "0", "yes"}
\* window.matchMedia: missing, or present with .matches true / false
MediaValues == {"unavailable", "dark", "light"}
\* btn.textContent: the markup's own text, or one of the two glyphs
LabelValues == {"markup", "sun", "moon"}

VARIABLES
    marker,     \* 'dark-mode' is in document.documentElement.classList
    btn,        \* an element with id 'dark-mode-toggle' is in the document
    aria,       \* its aria-pressed attribute
    label,      \* its textContent
    storage,    \* localStorage['darkMode']
    media,      \* the environment's matchMedia
    listeners,  \* click listeners bound to the button
    warned,     \* console.warn has been called on this page
    runs,       \* executions of the script on this page
    loads,      \* page loads so far
    op,         \* history: the last step taken
    pre,        \* history: the observable state before the last step
    calls,      \* history: the last (at most two) apply() calls made in
                \*          succession, each with its argument and outcome
    lastTheme   \* history: theme in effect after the last handled click

vars == <<marker, btn, aria, label, storage, media, listeners, warned,
          runs, loads, op, pre, calls, lastTheme>>

\* ------------------------------------------------------ pure JS helpers
\* JS truthiness of the values that reach apply()
Truthy(v) == v = "true"

\* a JS boolean as a value
ToJS(b) == IF b THEN "true" ELSE "false"

\* DOMTokenList.toggle(token, force): an undefined force counts as omitted,
\* so the token is flipped
ClassListToggleFlip(has, force) == ~has
ClassListToggle(has, force) ==
    IF force = "undefined" THEN ~has ELSE Truthy(force)

\* String(Boolean(enabled))
StringBoolean(enabled) == ToJS(Truthy(enabled))

\* enabled ? '1' : '0'
StorageTokenRaw(enabled) == enabled
StorageTokenSwapped(enabled) == IF Truthy(enabled) THEN "0" ELSE "1"
StorageToken(enabled) == IF Truthy(enabled) THEN "1" ELSE "0"

\* enabled ? sun : moon
Glyph(enabled) == IF Truthy(enabled) THEN "sun" ELSE "moon"

\* stored === '1'
StoredDecodeLoose(stored) == ToJS(stored # "0")
StoredDecode(stored) == ToJS(stored = "1")

\* window.matchMedia && window.matchMedia('(prefers-color-scheme: dark)').matches
PrefersDarkInverted(m) ==
    IF m = "unavailable" THEN "undefined" ELSE ToJS(m = "light")
PrefersDark(m) ==
    IF m = "unavailable" THEN "undefined" ELSE ToJS(m = "dark")

\* the four things apply() touches
Obs == [marker |-> marker, aria |-> aria, storage |-> storage, label |-> label]

\* apply(enabled)
Apply(s, enabled) ==
    [marker  |-> ClassListToggle(s.marker, enabled),
     aria    |-> StringBoolean(enabled),
     storage |-> StorageToken(enabled),
     label   |-> Glyph(enabled)]

\* the click listener's argument: !(getAttribute('aria-pressed') === 'true')
ListenerArg(s) == ToJS(~(s.aria = "true"))

\* the click listener
ClickListener(s) == Apply(s, ListenerArg(s))

\* one click event: every bound listener runs, in order
RECURSIVE Dispatch(_, _)
Dispatch(s, n) == IF n = 0 THEN s ELSE Dispatch(ClickListener(s), n - 1)

\* ------------------------------------------------------ history helpers
Snapshot == [marker |-> marker, aria |-> aria, storage |-> storage,
             label |-> label, listeners |-> listeners, btn |-> btn,
             media |-> media, warned |-> warned]

Call(s, enabled) == [en |-> enabled, post |-> Apply(s, enabled)]

LastTwo(q) == IF Len(q) <= 2 THEN q ELSE SubSeq(q, Len(q) - 1, Len(q))

RECURSIVE DispatchCalls(_, _)
DispatchCalls(s, n) ==
    IF n = 0 THEN <<>>
    ELSE <<Call(s, ListenerArg(s))>> \o DispatchCalls(ClickListener(s), n - 1)

\* ----------------------------------------------------------------- Init
Init ==
    /\ marker \in BOOLEAN
    /\ btn \in BOOLEAN
    /\ aria \in (IF btn THEN AttrValues ELSE {"absent"})
    /\ label = "markup"
    /\ storage \in StorageValues
    /\ media \in MediaValues
    /\ listeners = 0
    /\ warned = FALSE
    /\ runs = 0
    /\ loads = 1
    /\ op = "load"
    /\ pre = Snapshot
    /\ calls = <<>>
    /\ lastTheme = "none"

\* -------------------------------------------------------------- actions
\* a new page load: a fresh document, the same localStorage
PageLoad ==
    /\ loads < MaxLoads
    /\ loads' = loads + 1
    /\ marker' \in BOOLEAN
    /\ btn' \in BOOLEAN
    /\ aria' \in (IF btn' THEN AttrValues ELSE {"absent"})
    /\ label' = "markup"
    /\ media' \in MediaValues
    /\ listeners' = 0
    /\ warned' = FALSE
    /\ runs' = 0
    /\ op' = "load"
    /\ pre' = Snapshot
    /\ calls' = <<>>
    /\ UNCHANGED <<storage, lastTheme>>

\* the header is fetched and the button is injected into the page
InjectControl ==
    /\ ~btn
    /\ btn' = TRUE
    /\ aria' \in AttrValues
    /\ label' = "markup"
    /\ op' = "inject"
    /\ pre' = Snapshot
    /\ calls' = <<>>
    /\ UNCHANGED <<marker, storage, media, listeners, warned, runs, loads,
                   lastTheme>>

\* another script or the user agent sets or removes aria-pressed
MutateAttribute ==
    /\ btn
    /\ \E v \in AttrValues : v # aria /\ aria' = v
    /\ op' = "mutate"
    /\ pre' = Snapshot
    /\ calls' = <<>>
    /\ UNCHANGED <<marker, btn, label, storage, media, listeners, warned,
                   runs, loads, lastTheme>>

\* the script runs and getElementById returns null: warn and return
InitMissingWrites ==
    /\ ~btn
    /\ runs < MaxRuns
    /\ runs' = runs + 1
    /\ warned' = TRUE
    /\ storage' = StorageToken(PrefersDark(media))
    /\ op' = "init_missing"
    /\ pre' = Snapshot
    /\ UNCHANGED <<marker, btn, aria, label, media, listeners, loads,
                   calls, lastTheme>>
InitMissing ==
    /\ ~btn
    /\ runs < MaxRuns
    /\ runs' = runs + 1
    /\ warned' = TRUE
    /\ op' = "init_missing"
    /\ pre' = Snapshot
    /\ UNCHANGED <<marker, btn, aria, label, storage, media, listeners,
                   loads, calls, lastTheme>>

\* the effect of one apply(enabled) call made by the initialization,
\* followed by addEventListener('click', ...)
InitApply(enabled) ==
    LET s == Apply(Obs, enabled) IN
    /\ marker' = s.marker
    /\ aria' = s.aria
    /\ storage' = s.storage
    /\ label' = s.label
    /\ listeners' = listeners + 1
    /\ calls' = LastTwo(Append(calls, Call(Obs, enabled)))

\* the script runs, the button is found, a stored value is present
InitStored ==
    /\ btn
    /\ runs < MaxRuns
    /\ storage # "absent"
    /\ runs' = runs + 1
    /\ InitApply(StoredDecode(storage))
    /\ op' = "init_stored"
    /\ pre' = Snapshot
    /\ UNCHANGED <<btn, media, warned, loads, lastTheme>>

\* the script runs, the button is found, nothing is stored
InitSystem ==
    /\ btn
    /\ runs < MaxRuns
    /\ storage = "absent"
    /\ runs' = runs + 1
    /\ InitApply(PrefersDark(media))
    /\ op' = "init_system"
    /\ pre' = Snapshot
    /\ UNCHANGED <<btn, media, warned, loads, lastTheme>>

\* the user clicks the button: every bound listener runs
Activate ==
    LET s == Dispatch(Obs, listeners) IN
    /\ btn
    /\ marker' = s.marker
    /\ aria' = s.aria
    /\ storage' = s.storage
    /\ label' = s.label
    /\ calls' = LastTwo(calls \o DispatchCalls(Obs, listeners))
    /\ lastTheme' = IF listeners = 0 THEN lastTheme
                    ELSE IF s.marker THEN "dark" ELSE "light"
    /\ op' = "activate"
    /\ pre' = Snapshot
    /\ UNCHANGED <<btn, media, listeners, warned, runs, loads>>

Next ==
    \/ PageLoad
    \/ InjectControl
    \/ MutateAttribute
    \/ InitMissing
    \/ InitStored
    \/ InitSystem
    \/ Activate

Spec == Init /\ [][Next]_vars

\* ------------------------------------------------------------ type check
TypeOK ==
    /\ marker \in BOOLEAN
    /\ btn \in BOOLEAN
    /\ aria \in AttrValues
    /\ label \in LabelValues
    /\ storage \in StorageValues
    /\ media \in MediaValues
    /\ listeners \in 0..MaxRuns
    /\ warned \in BOOLEAN
    /\ runs \in 0..MaxRuns
    /\ loads \in 1..MaxLoads
    /\ Len(calls) <= 2
    /\ lastTheme \in {"none", "dark", "light"}

\* ------------------------------------------------- claim helper notions
\* the last step ran apply() at least once
Applied ==
    \/ op \in {"init_stored", "init_system"}
    \/ (op = "activate" /\ pre.listeners > 0)

\* the argument of the most recent apply() call
LastEnabled == calls[Len(calls)].en

\* C1: after any apply(enabled) call, made by the initialization or by the
\* click listener, the root carries the dark-mode marker iff enabled,
\* aria-pressed is the string form of enabled and the stored key is "1" iff
\* enabled and "0" otherwise.
C1_ApplyConsistent ==
    Applied =>
        /\ marker = Truthy(LastEnabled)
        /\ aria = ToJS(Truthy(LastEnabled))
        /\ storage = (IF Truthy(LastEnabled) THEN "1" ELSE "0")

\* C2: when the key is absent, no step other than a user activation writes
\* it: in particular an initialization that falls back to the system
\* preference leaves the key absent.
C2_SystemValueNotPersisted ==
    (pre.storage = "absent" /\ op # "activate") => storage = "absent"

\* C3: an initialization that does not find the button only warns: marker,
\* attribute, label, stored key and listeners are as before; and while no
\* listener is bound, a click on the (later injected) button changes nothing.
C3_MissingControlTolerated ==
    /\ op = "init_missing" =>
           /\ Obs = [marker |-> pre.marker, aria |-> pre.aria,
                     storage |-> pre.storage, label |-> pre.label]
           /\ listeners = pre.listeners
           /\ warned
    /\ (op = "activate" /\ pre.listeners = 0) =>
           Obs = [marker |-> pre.marker, aria |-> pre.aria,
                  storage |-> pre.storage, label |-> pre.label]

\* the button was injected after a failed initialization and then clicked
C3_Witness ==
    /\ op = "activate"
    /\ pre.listeners = 0
    /\ warned
    /\ btn
    /\ runs > 0

\* C4: an initialization that finds a stored value yields dark-enabled iff
\* that value is "1", whatever the system preference is.
C4_StoredWins ==
    op = "init_stored" =>
        /\ marker = (pre.storage = "1")
        /\ aria = ToJS(pre.storage = "1")

\* stored "1" and a light system preference: dark mode is on
C4_Witness ==
    /\ op = "init_stored"
    /\ pre.storage = "1"
    /\ media = "light"
    /\ ~pre.marker
    /\ marker
    /\ aria = "true"

\* C5: an initialization that finds no stored value and can query the
\* system preference yields dark-enabled equal to that preference.
C5_SystemFallback ==
    (op = "init_system" /\ media # "unavailable") =>
        /\ marker = (media = "dark")
        /\ aria = ToJS(media = "dark")

\* key absent and the system prefers dark: dark mode is on
C5_Witness ==
    /\ op = "init_system"
    /\ pre.storage = "absent"
    /\ media = "dark"
    /\ ~pre.marker
    /\ marker
    /\ aria = "true"

\* C6: after a successful initialization one click with aria-pressed "true"
\* gives aria-pressed "false", marker cleared and key "0"; one click with
\* aria-pressed "false" gives aria-pressed "true", marker set and key "1".
C6_ToggleInversion ==
    (op = "activate" /\ pre.listeners > 0) =>
        /\ pre.aria = "true" =>
               (aria = "false" /\ ~marker /\ storage = "0")
        /\ pre.aria = "false" =>
               (aria = "true" /\ marker /\ storage = "1")

\* C7: once a click has been handled, every later initialization that finds
\* the button restores the theme in effect after the last handled click,
\* whatever the system preference is at that time.
C7_Remembered ==
    (op \in {"init_stored", "init_system"} /\ lastTheme # "none") =>
        /\ marker = (lastTheme = "dark")
        /\ aria = ToJS(lastTheme = "dark")

\* a later page load with a light system preference restores dark
C7_Witness ==
    /\ op = "init_stored"
    /\ loads = 2
    /\ lastTheme = "dark"
    /\ media = "light"
    /\ ~pre.marker
    /\ marker

\* C8: after apply(enabled) the label names the current mode: the moon
\* (modo oscuro) when enabled, the sun (modo claro) when not.
C8_GlyphNamesMode ==
    Applied => label = (IF Truthy(LastEnabled) THEN "moon" ELSE "sun")

\* C9: for a boolean b, apply(b) directly after apply(b) leaves marker,
\* attribute, label and key as the first call left them, from any state.
C9_Idempotent ==
    /\ (/\ Len(calls) = 2
        /\ calls[1].en = calls[2].en
        /\ calls[1].en \in {"true", "false"}) => calls[2].post = calls[1].post
    /\ \A b \in {"true", "false"} : Apply(Apply(Obs, b), b) = Apply(Obs, b)

\* the script ran twice on one page and called apply with the same value
C9_Witness ==
    /\ Len(calls) = 2
    /\ calls[1].en = calls[2].en
    /\ calls[1].en \in {"true", "false"}
    /\ op = "init_stored"
    /\ pre.listeners = 1
    /\ Obs = calls[2].post

\* C10: a click applies NOT (aria-pressed = "true") of the attribute as it
\* is at that moment: afterwards marker, attribute, key and label all show
\* that value, so any attribute other than "true" leads to dark-enabled.
C10_AttributeIsSourceOfTruth ==
    (op = "activate" /\ pre.listeners > 0) =>
        LET e == ~(pre.aria = "true") IN
        /\ marker = e
        /\ aria = ToJS(e)
        /\ storage = (IF e THEN "1" ELSE "0")
        /\ label = (IF e THEN "sun" ELSE "moon")

\* C11: once a listener is bound, every click moves the theme to the other
\* state: no click leaves the marker as it was.
C11_EveryClickFlips ==
    (op = "activate" /\ pre.listeners > 0) => marker # pre.marker

\* C12: the module only ever writes "1" or "0" and never removes the key:
\* a key that is present stays present, a key that is "1" or "0" stays "1"
\* or "0", after every apply() it is "1" or "0", and an initialization that
\* finds any other token decodes it as not enabled and overwrites it by "0".
C12_KeyValues ==
    /\ pre.storage # "absent" => storage # "absent"
    /\ pre.storage \in {"1", "0"} => storage \in {"1", "0"}
    /\ storage # pre.storage => storage \in {"1", "0"}
    /\ Applied => storage \in {"1", "0"}
    /\ (op = "init_stored" /\ pre.storage \notin {"1", "0"}) =>
           (storage = "0" /\ ~marker /\ aria = "false")

\* a foreign token was found at initialization and replaced by "0"
C12_Witness ==
    /\ op = "init_stored"
    /\ pre.storage = "yes"
    /\ pre.marker
    /\ storage = "0"
    /\ ~marker

\* C13: with no window.matchMedia and no stored key, an initialization that
\* finds the button ends light: marker absent, aria-pressed "false" and the
\* label apply() gives for enabled = false, whatever the marker was before.
C13_NoMatchMediaEndsLight ==
    (op = "init_system" /\ media = "unavailable") =>
        /\ ~marker
        /\ aria = "false"
        /\ label = "moon"

\* C14: at most one click listener is ever bound to the button, so a click
\* makes exactly one apply() call.
C14_SingleListener ==
    /\ listeners <= 1
    /\ op = "activate" => pre.listeners <= 1

====
